---- MODULE Spec2Model ----
(***************************************************************************)
(* Request-execution and result-aggregation engine of the API playground:  *)
(* sendRequest of components/api/TestForm.vue and sendTestRequest of the   *)
(* legacy page script, with the transport (fetch, response body reads) and *)
(* the clock (Date.now) as the environment (Spec), the building of the     *)
(* request URL from the route template and the parameter fields (SpecUrl), *)
(* the route selection of the api-doc store (SpecDoc) and one call of      *)
(* api.http of utils/base-api.ts (SpecHttp).                               *)
(***************************************************************************)
EXTENDS Integers, Sequences, FiniteSets, TLC

VARIABLES
    form,          \* which implementation the page runs: "vue" | "legacy"
    scope,         \* what the behaviour followed varies: "batch" | "form" |
                   \* "overlap" | "render"
    cleared,       \* history: the user has cleared the result since the last submit
    sends,         \* submits of the form so far
    now,           \* the value Date.now() returns
    call,          \* call[k]: the locals of the k-th activation of the send handler
    testResult,    \* the outcome slot: testResult ref / test-response container
    visible,       \* legacy: test-result container is displayed
    isLoading,     \* TestForm.vue: isLoading ref
    headersError,  \* headersError ref / headers error element text
    bodyError,     \* bodyError ref / body error element text
    build,         \* one building of the request URL: template, values, result
    container,     \* legacy: the test-result elements of the route are in the document
    doc,           \* the api-doc store: route lists, route type, selection, loading
    http           \* one call of api.http: its position, request and result

vars == <<form, scope, cleared, sends, now, call, testResult, visible, isLoading, headersError, bodyError,
         build, container, doc, http>>

----------------------------------------------------------------------------
(* Bounds *)

MaxBatch == 3         \* requests of one batch that are followed
MaxTime == 1          \* the clock is followed from 0 to MaxTime
MaxSends == 2         \* submits of the form that are followed

(* Program constants *)

MinRequestCount == 1
MaxRequestCount == 1000

Calls == 1..MaxSends

----------------------------------------------------------------------------
(* JSON texts and values.  A parsed object is a function from its keys.    *)

Undefined == [type |-> "undefined", value |-> "undefined"]
Null == [type |-> "null", value |-> "null"]
Str(s) == [type |-> "string", value |-> s]
NaN == "NaN"
Infinity == "Infinity"
NegInfinity == "-Infinity"

ParsedJSON ==
    ( "{\"X-Token\":\"t\"}"        :> [type |-> "object", value |-> ("X-Token" :> "t")] ) @@
    ( "{\"key\":\"value\"}"        :> [type |-> "object", value |-> ("key" :> "value")] ) @@
    ( "{\"ok\":true}"              :> [type |-> "object", value |-> ("ok" :> "true")] ) @@
    ( "{\"message\":\"invalid\"}"  :> [type |-> "object", value |-> ("message" :> "invalid")] ) @@
    ( "null"                       :> Null )

\* String.prototype.trim() leaves nothing
IsBlank(text) == text \in {"", " ", "\n"}

\* JSON.parse: the parsed value, or the SyntaxError message
JSONParse(text) ==
    IF text \in DOMAIN ParsedJSON
    THEN [ok |-> TRUE, value |-> ParsedJSON[text], message |-> ""]
    ELSE [ok |-> FALSE, value |-> Undefined,
          message |-> IF text = "" THEN "Unexpected end of JSON input"
                      ELSE "Unexpected token in JSON"]

\* utils/apiHelpers validateJSON (TestForm.vue): {isValid, data, error}
validateJSON(jsonString) ==
    IF IsBlank(jsonString)
    THEN [isValid |-> TRUE, data |-> Undefined, error |-> ""]
    ELSE LET p == JSONParse(jsonString) IN
         IF p.ok THEN [isValid |-> TRUE, data |-> p.value, error |-> ""]
         ELSE [isValid |-> FALSE, data |-> Undefined, error |-> p.message]

\* a parse error is reported as an empty field (null) instead of false
legacyValidateJSON_returnsNull(jsonString) ==
    IF IsBlank(jsonString)
    THEN [result |-> "null", parsed |-> Null, shown |-> ""]
    ELSE LET p == JSONParse(jsonString) IN
         IF p.ok
         THEN [result |-> IF p.value.type = "null" THEN "null" ELSE "value",
               parsed |-> p.value, shown |-> ""]
         ELSE [result |-> "null", parsed |-> Null, shown |-> p.message]

\* a parse error hides the error element instead of showing the message
legacyValidateJSON_hidesError(jsonString) ==
    IF IsBlank(jsonString)
    THEN [result |-> "null", parsed |-> Null, shown |-> ""]
    ELSE LET p == JSONParse(jsonString) IN
         IF p.ok
         THEN [result |-> IF p.value.type = "null" THEN "null" ELSE "value",
               parsed |-> p.value, shown |-> ""]
         ELSE [result |-> "false", parsed |-> Undefined, shown |-> ""]

\* legacy validateJSON: null for blank text, false for a parse error, else
\* the parsed value; shown is the text left in the error element ("" = hidden)
legacyValidateJSON(jsonString) ==
    IF IsBlank(jsonString)
    THEN [result |-> "null", parsed |-> Null, shown |-> ""]
    ELSE LET p == JSONParse(jsonString) IN
         IF p.ok
         THEN [result |-> IF p.value.type = "null" THEN "null" ELSE "value",
               parsed |-> p.value, shown |-> ""]
         ELSE [result |-> "false", parsed |-> Undefined, shown |-> p.message]

\* String.prototype.toUpperCase on the route methods
toUpperCase(m) ==
    CASE m = "get" -> "GET"
      [] m = "post" -> "POST"
      [] m = "delete" -> "DELETE"
      [] m = "put" -> "PUT"
      [] m = "patch" -> "PATCH"
      [] OTHER -> m

BodyMethods == {"POST", "PUT", "PATCH"}

\* TestForm.vue isBodyMethod
isBodyMethod(routeMethod) == toUpperCase(routeMethod) \in BodyMethods

\* the default headers name another content type
DefaultHeaders_textPlain == ("Content-Type" :> "text/plain")

\* { 'Content-Type': 'application/json' }
DefaultHeaders == ("Content-Type" :> "application/json")

\* { ...a, ...b }
Spread(a, b) ==
    [n \in (DOMAIN a) \cup (DOMAIN b) |-> IF n \in DOMAIN b THEN b[n] ELSE a[n]]

----------------------------------------------------------------------------
(* The transport: what fetch may resolve to.                               *)

Responses ==
    { [status |-> 200, statusText |-> "OK",
       contentType |-> "application/json", body |-> "{\"ok\":true}"],
      [status |-> 304, statusText |-> "Not Modified",
       contentType |-> "", body |-> ""],
      [status |-> 500, statusText |-> "Internal Server Error",
       contentType |-> "application/json", body |-> "<html>"] }

NoResponse == [status |-> 0, statusText |-> "", contentType |-> "", body |-> ""]

FetchErrorMessage == "Failed to fetch"

\* every status below 400 counts as ok
ResponseOk_below400(response) == response.status >= 200 /\ response.status <= 399

\* Response.ok
ResponseOk(response) == response.status >= 200 /\ response.status <= 299

\* contentType && contentType.includes('application/json')
IsJsonContent(response) == response.contentType = "application/json"

\* await response.json() / await response.text(): the data, or the rejection
ReadBody(response) ==
    IF IsJsonContent(response)
    THEN LET p == JSONParse(response.body) IN
         [ok |-> p.ok, data |-> p.value, message |-> p.message]
    ELSE [ok |-> TRUE, data |-> Str(response.body), message |-> ""]

\* Object.fromEntries(response.headers.entries())
ResponseHeaders(response) ==
    IF response.contentType = "" THEN <<>>
    ELSE ("content-type" :> response.contentType)

----------------------------------------------------------------------------
(* Results, statistics and outcomes.                                       *)

\* the result pushed after a response was read
ResponseResult(response, data, responseTime, i) ==
    [success |-> ResponseOk(response),
     status |-> response.status,
     statusText |-> response.statusText,
     headers |-> ResponseHeaders(response),
     data |-> data,
     responseTime |-> responseTime,
     requestNumber |-> i + 1,
     error |-> FALSE]

\* the result pushed by the catch block of one request
ErrorResult(message, responseTime, i) ==
    [success |-> FALSE,
     status |-> 0,
     statusText |-> "Network Error",
     headers |-> <<>>,
     data |-> Str(message),
     responseTime |-> responseTime,
     requestNumber |-> i + 1,
     error |-> TRUE]

RECURSIVE Sum(_)
Sum(seq) == IF seq = <<>> THEN 0 ELSE Head(seq) + Sum(Tail(seq))

SeqMin(seq) ==
    IF seq = <<>> THEN Infinity
    ELSE CHOOSE m \in {seq[j] : j \in 1..Len(seq)} :
             \A j \in 1..Len(seq) : m <= seq[j]

SeqMax(seq) ==
    IF seq = <<>> THEN NegInfinity
    ELSE CHOOSE m \in {seq[j] : j \in 1..Len(seq)} :
             \A j \in 1..Len(seq) : m >= seq[j]

\* the sum is not divided by the number of times
RoundedMean_sum(seq) ==
    IF seq = <<>> THEN NaN ELSE Sum(seq)

\* Math.round(sum / length) for sum >= 0: halves round up; 0 / 0 is NaN
RoundedMean(seq) ==
    IF seq = <<>> THEN NaN
    ELSE (2 * Sum(seq) + Len(seq)) \div (2 * Len(seq))

\* results.filter((r) => r.success).length
CountSuccessful(results) ==
    Cardinality({j \in 1..Len(results) : results[j].success})

\* totalTime is the time of the last request
Statistics_totalIsLastTime(requestCount, results, responseTimes, totalTime) ==
    [totalRequests |-> requestCount,
     successfulRequests |-> CountSuccessful(results),
     failedRequests |-> Len(results) - CountSuccessful(results),
     totalTime |-> IF responseTimes = <<>> THEN 0
                   ELSE responseTimes[Len(responseTimes)],
     avgResponseTime |-> RoundedMean(responseTimes),
     minResponseTime |-> SeqMin(responseTimes),
     maxResponseTime |-> SeqMax(responseTimes)]

\* the statistics block of a batch outcome
Statistics(requestCount, results, responseTimes, totalTime) ==
    [totalRequests |-> requestCount,
     successfulRequests |-> CountSuccessful(results),
     failedRequests |-> Len(results) - CountSuccessful(results),
     totalTime |-> totalTime,
     avgResponseTime |-> RoundedMean(responseTimes),
     minResponseTime |-> SeqMin(responseTimes),
     maxResponseTime |-> SeqMax(responseTimes)]

NoOutcome == [kind |-> "none"]

LoadingOutcome(requestCount, progress) ==
    [kind |-> "loading", requestCount |-> requestCount, progress |-> progress]

ErrorOutcome(message, details, url, method) ==
    [kind |-> "error", error |-> TRUE, message |-> message,
     details |-> details, url |-> url, method |-> method]

SingleOutcome(c) ==
    LET singleResult == c.results[1] IN
    [kind |-> "single",
     success |-> singleResult.success,
     status |-> singleResult.status,
     statusText |-> singleResult.statusText,
     headers |-> singleResult.headers,
     data |-> singleResult.data,
     responseTime |-> singleResult.responseTime,
     url |-> c.finalUrl, method |-> c.method,
     requestHeaders |-> c.requestHeaders, requestBody |-> c.requestBody]

\* the success flag is that of the first result
BatchOutcome_firstSucceeded(c, totalTime) ==
    [kind |-> "batch",
     success |-> IF c.results = <<>> THEN FALSE ELSE c.results[1].success,
     firstResult |-> IF c.results = <<>> THEN <<>> ELSE <<c.results[1]>>,
     statistics |-> Statistics(c.requestCount, c.results, c.responseTimes, totalTime),
     url |-> c.finalUrl, method |-> c.method,
     requestHeaders |-> c.requestHeaders, requestBody |-> c.requestBody,
     allResults |-> c.results]

BatchOutcome(c, totalTime) ==
    [kind |-> "batch",
     success |-> CountSuccessful(c.results) > 0,
     firstResult |-> IF c.results = <<>> THEN <<>> ELSE <<c.results[1]>>,
     statistics |-> Statistics(c.requestCount, c.results, c.responseTimes, totalTime),
     url |-> c.finalUrl, method |-> c.method,
     requestHeaders |-> c.requestHeaders, requestBody |-> c.requestBody,
     allResults |-> c.results]

\* the outcome written after the loop
ShapeOutcome(c, totalTime) ==
    IF c.requestCount = 1 THEN SingleOutcome(c) ELSE BatchOutcome(c, totalTime)

----------------------------------------------------------------------------
(* One activation of the send handler.                                     *)

\* JSON.stringify of a parsed value; JSON.stringify(undefined) is undefined
Stringify(v) ==
    IF v.type = "undefined" THEN Undefined
    ELSE Str(CHOOSE text \in DOMAIN ParsedJSON : ParsedJSON[text].type = v.type
                                            /\ ParsedJSON[text].value = v.value)

\* a null body is serialised and attached as well
AttachBody_nullToo(requestBody, attachable) ==
    IF attachable THEN Stringify(requestBody) ELSE Undefined

\* fetchOptions.body: set if the body is not null (and, in TestForm.vue, the
\* route has a body method); a body of undefined is no body
AttachBody(requestBody, attachable) ==
    IF requestBody.type # "null" /\ attachable THEN Stringify(requestBody)
    ELSE Undefined

\* the route under test has no path parameters: buildUrl returns the template
RouteUrl == "/api/ping"

IdleCall ==
    [pc |-> "idle", exit |-> "none",
     requestCount |-> 0, method |-> "GET", headersText |-> "", bodyText |-> "",
     finalUrl |-> RouteUrl, requestHeaders |-> <<>>, requestBody |-> Undefined,
     fetchBody |-> Undefined,
     i |-> 0, issued |-> 0, overallStartTime |-> 0, startTime |-> 0,
     responseTime |-> 0, response |-> NoResponse,
     results |-> <<>>, responseTimes |-> <<>>,
     signals |-> <<>>]           \* history: the progress values displayed

\* no URL is being built
\* the api-doc store as created: no routes, HTTP routes shown, none selected
\* (an id of 0 stands for null, ids start at 1; an error of "" for null)
IdleDoc ==
    [pc |-> "idle", fetches |-> 0, isLoading |-> FALSE, error |-> "",
     currentRouteType |-> "http", selectedRouteId |-> 0, currentId |-> 0,
     flatHttpRoute |-> <<>>, flatWsRoute |-> <<>>]

\* api.http is not being called
IdleHttp ==
    [pc |-> "idle", method |-> "", url |-> "", headers |-> <<>>, body |-> Undefined,
     response |-> NoResponse, result |-> Undefined]

IdleBuild ==
    [pc |-> "idle", url |-> <<>>, parameters |-> <<>>, paramValues |-> <<>>,
     finalUrl |-> <<>>]

\* the locals of an activation as it starts, before validation
NewCall(method, headersText, bodyText, requestCount) ==
    [IdleCall EXCEPT !.requestCount = requestCount, !.method = method,
                     !.headersText = headersText, !.bodyText = bodyText]

\* the handler has returned; exit is the way it ended: "validation" (an
\* early return), "completed" (after the loop) or "caught" (the outer catch).
\* The record keeps the last values of its locals (none after an early
\* return).
Return(c, exit) == [c EXCEPT !.pc = "returned", !.exit = exit, !.response = NoResponse]

Running(k) == call[k].pc \in {"fetch", "body"}

\* A behaviour of scope "batch" follows one submit of a valid GET form: the
\* requests of its batch, their outcomes and the time they take.  A behaviour
\* of scope "form" follows several submits of single requests, one after the
\* other, with every content of the fields, at one time of the clock.  A
\* behaviour of scope "overlap" follows several submits of single requests
\* of a valid GET form of the legacy page, whose submit button stays enabled
\* while a send runs: its activations may overlap.  A behaviour of scope
\* "render" follows one submit of a valid GET form of the legacy page and
\* the renderings of the route list (search field, type filter) during it.
Scopes ==
    IF form = "legacy" THEN {"batch", "form", "overlap", "render"}
    ELSE {"batch", "form"}
BatchLimit == IF scope \in {"batch", "render"} THEN MaxBatch ELSE 1
TimeLimit == IF scope = "batch" THEN MaxTime ELSE 0
SendLimit == IF scope \in {"batch", "render"} THEN 1 ELSE MaxSends

\* a submit can be followed: the form is in the document
CanStart ==
    /\ container
    /\ sends < SendLimit
    /\ scope = "overlap" \/ \A k \in Calls : ~Running(k)

\* the activation record a new submit uses
FreeCall == CHOOSE k \in Calls : ~Running(k) /\ \A j \in 1..(k - 1) : Running(j)

\* the body read is outside the inner try
InnerTryCovers_fetchOnly(point) == point = "fetch"

\* the statements of one iteration an exception of which the inner
\* try/catch of the loop body handles
InnerTryCovers(point) == point \in {"fetch", "body"}

\* legacy: the progress display at the end of an iteration
ShowsProgress(c) == form = "legacy" /\ c.requestCount > 1

Progress(c) ==
    IF ShowsProgress(c) THEN LoadingOutcome(c.requestCount, c.i) ELSE testResult

\* the activation after its progress display, if it makes one
Signal(c) ==
    IF ShowsProgress(c) THEN [c EXCEPT !.signals = Append(c.signals, c.i)] ELSE c

\* isLoading is left as it is when the handler returns
AfterFinally_unchanged == isLoading

\* finally { isLoading.value = false }
AfterFinally == FALSE

\* fetch is not awaited: the remaining requests are all issued at once
Continue_allAtOnce(k, c, slot, shown) ==
    /\ now' = now
    /\ IF c.i < c.requestCount
       THEN /\ c.requestCount <= BatchLimit
            /\ call' = [call EXCEPT ![k] =
                          [c EXCEPT !.pc = "fetch", !.startTime = now,
                                    !.issued = c.requestCount]]
            /\ testResult' = slot
            /\ isLoading' = (form = "vue")
            /\ visible' = shown
       ELSE /\ call' = [call EXCEPT ![k] = Return(c, "completed")]
            /\ testResult' = ShapeOutcome(c, now - c.overallStartTime)
            /\ isLoading' = AfterFinally
            /\ visible' = TRUE

\* the loop test after iteration c.i (c.i already incremented): the next
\* fetch is issued, or the loop ends and the outcome is written.
\* The calls of Date.now() in one synchronous run read the same time.
Continue(k, c, slot, shown) ==
    /\ now' = now
    /\ IF c.i < c.requestCount
       THEN /\ c.issued < BatchLimit
            /\ call' = [call EXCEPT ![k] =
                          [c EXCEPT !.pc = "fetch", !.startTime = now,
                                    !.issued = c.issued + 1]]
            /\ testResult' = slot
            /\ isLoading' = (form = "vue")
            /\ visible' = shown
       ELSE /\ call' = [call EXCEPT ![k] = Return(c, "completed")]
            /\ testResult' = ShapeOutcome(c, now - c.overallStartTime)
            /\ isLoading' = AfterFinally
            /\ visible' = TRUE

\* legacy: displayTestResult sets resultContainer.style.display, where
\* resultContainer is document.getElementById(...): a TypeError if the
\* element is not in the document
DisplayRaises == form = "legacy" /\ ~container

DisplayErrorMessage == "Cannot read properties of null (reading 'style')"

\* the outer catch of the send handler (and, in TestForm.vue, its finally);
\* the legacy catch block calls displayTestResult: if that raises, the
\* exception leaves sendTestRequest (exit "raised")
OuterCatch(k, c, message) ==
    IF DisplayRaises
    THEN /\ call' = [call EXCEPT ![k] = Return(c, "raised")]
         /\ UNCHANGED <<testResult, visible, isLoading, now>>
    ELSE /\ call' = [call EXCEPT ![k] = Return(c, "caught")]
         /\ testResult' = ErrorOutcome("Network error or request failed", message,
                                       c.finalUrl, c.method)
         /\ visible' = TRUE
         /\ isLoading' = AfterFinally
         /\ now' = now

\* the end of an iteration after its result is pushed: the progress display
\* (legacy, count > 1), the loop test and, after the last iteration, the
\* display of the outcome; a display that raises is inside the outer try
EndIteration(k, c1) ==
    IF DisplayRaises THEN OuterCatch(k, c1, DisplayErrorMessage)
    ELSE Continue(k, Signal(c1), Progress(c1), ShowsProgress(c1) \/ visible)

----------------------------------------------------------------------------
(* Inputs of the forms.                                                    *)

RouteMethods == {"get", "post"}
HeaderTexts == {"", " ", "{bad", "{\"X-Token\":\"t\"}"}
BodyTexts == {"", " ", "{bad", "null", "{\"key\":\"value\"}"}
MethodInputs == IF scope = "form" THEN RouteMethods ELSE {"get"}
HeaderInputs == IF scope = "form" THEN HeaderTexts ELSE {""}
\* the body field is rendered for POST, PUT and PATCH routes only; the body
\* ref of TestForm.vue holds a text for every route
BodyInputs(routeMethod) ==
    IF isBodyMethod(routeMethod) \/ (form = "vue" /\ scope = "form") THEN BodyTexts
    ELSE {""}
CountInputs == (0..BatchLimit) \cup {MaxRequestCount + 1}

----------------------------------------------------------------------------
(* TestForm.vue                                                            *)

\* sendRequest up to its first await
sendRequest(routeMethod, headers, body, requestCount) ==
    /\ form = "vue"
    /\ ~isLoading                      \* the submit button is disabled
    /\ CanStart
    /\ sends' = sends + 1
    /\ LET k == FreeCall
           headersValidation == validateJSON(headers)
           bodyValidation ==
               IF isBodyMethod(routeMethod) THEN validateJSON(body)
               ELSE [isValid |-> TRUE, data |-> Undefined, error |-> ""]
           c0 == NewCall(toUpperCase(routeMethod), headers, body, requestCount)
       IN
       /\ headersError' = headersValidation.error
       /\ bodyError' = IF isBodyMethod(routeMethod) THEN bodyValidation.error
                       ELSE bodyError
       /\ IF ~headersValidation.isValid \/ ~bodyValidation.isValid
          THEN /\ call' = [call EXCEPT ![k] = Return(IdleCall, "validation")]
               /\ UNCHANGED <<now, testResult, visible, isLoading>>
          ELSE LET requestBody == bodyValidation.data
                   c == [c0 EXCEPT
                           !.requestHeaders =
                               IF headersValidation.data.type \in {"undefined", "null"}
                               THEN DefaultHeaders
                               ELSE headersValidation.data.value,
                           !.requestBody = requestBody,
                           !.fetchBody = AttachBody(requestBody, isBodyMethod(routeMethod)),
                           !.overallStartTime = now]
               IN Continue(k, c, NoOutcome, FALSE)
    /\ cleared' = FALSE
    /\ UNCHANGED <<form, scope, build, container, doc, http>>

\* clearResult
clearResult ==
    /\ form = "vue"
    /\ testResult' = NoOutcome
    /\ visible' = FALSE
    /\ cleared' = TRUE
    /\ UNCHANGED <<form, scope, sends, now, call, isLoading, headersError, bodyError, build, container, doc, http>>

\* the user edits the count field while sendRequest runs: the loop test and
\* the outcome read requestCount.value, the ref the field is bound to
editRequestCount(k, n) ==
    /\ form = "vue"
    /\ Running(k)
    /\ n # call[k].requestCount
    /\ call' = [call EXCEPT ![k].requestCount = n]
    /\ UNCHANGED <<form, scope, cleared, sends, now, testResult, visible, isLoading, headersError, bodyError, build, container, doc, http>>

----------------------------------------------------------------------------
(* The legacy page script                                                  *)

\* sendTestRequest up to its first await
sendTestRequest(method, headersText, bodyText, requestCount) ==
    /\ form = "legacy"
    /\ CanStart
    /\ sends' = sends + 1
    /\ LET k == FreeCall
           c0 == NewCall(method, headersText, bodyText, requestCount)
           checkHeaders == ~IsBlank(headersText)
           validatedHeaders == legacyValidateJSON(headersText)
           checkBody == method \in BodyMethods /\ ~IsBlank(bodyText)
           validatedBody == legacyValidateJSON(bodyText)
       IN
       IF requestCount < MinRequestCount \/ requestCount > MaxRequestCount
       THEN /\ testResult' = ErrorOutcome("Request count must be between 1 and 1000",
                                          "Current value: " \o ToString(requestCount),
                                          "undefined", "undefined")
            /\ visible' = TRUE
            /\ call' = [call EXCEPT ![k] = Return(IdleCall, "validation")]
            /\ UNCHANGED <<now, isLoading, headersError, bodyError>>
       ELSE IF checkHeaders /\ validatedHeaders.result = "false"
       THEN /\ headersError' = validatedHeaders.shown
            /\ call' = [call EXCEPT ![k] = Return(IdleCall, "validation")]
            /\ UNCHANGED <<now, testResult, visible, isLoading, bodyError>>
       ELSE IF checkBody /\ validatedBody.result = "false"
       THEN /\ headersError' = IF checkHeaders THEN validatedHeaders.shown
                               ELSE headersError
            /\ bodyError' = validatedBody.shown
            /\ call' = [call EXCEPT ![k] = Return(IdleCall, "validation")]
            /\ UNCHANGED <<now, testResult, visible, isLoading>>
       ELSE LET headers ==
                    IF checkHeaders /\ validatedHeaders.result = "value"
                    THEN Spread(DefaultHeaders, validatedHeaders.parsed.value)
                    ELSE DefaultHeaders
                body == IF checkBody /\ validatedBody.result = "value"
                        THEN validatedBody.parsed ELSE Null
                c == [c0 EXCEPT
                        !.requestHeaders = headers,
                        !.requestBody = body,
                        !.fetchBody = AttachBody(body, TRUE),
                        !.overallStartTime = now]
            IN /\ headersError' = IF checkHeaders THEN validatedHeaders.shown
                                  ELSE headersError
               /\ bodyError' = IF checkBody THEN validatedBody.shown ELSE bodyError
               /\ Continue(k, c, LoadingOutcome(requestCount, 0), TRUE)
    /\ cleared' = FALSE
    /\ UNCHANGED <<form, scope, build, container, doc, http>>

\* clearTestResult
clearTestResult ==
    /\ form = "legacy"
    /\ container
    /\ visible' = FALSE
    /\ cleared' = TRUE
    /\ UNCHANGED <<form, scope, sends, now, call, testResult, isLoading, headersError, bodyError, build, container, doc, http>>

----------------------------------------------------------------------------
(* The iterations of the request loop, shared by both handlers.            *)

\* the catch block of one request, then the rest of the iteration
CatchRequestError(k, message) ==
    LET c == call[k]
        responseTime == now - c.startTime
        c1 == [c EXCEPT !.responseTime = responseTime,
                        !.responseTimes = Append(c.responseTimes, responseTime),
                        !.results = Append(c.results,
                                           ErrorResult(message, responseTime, c.i)),
                        !.response = NoResponse,
                        !.i = c.i + 1]
    IN EndIteration(k, c1)

\* await fetch(...) resolves: the time is taken, the body read is started
fetchResolves(k, response) ==
    /\ call[k].pc = "fetch"
    /\ LET c == call[k]
           responseTime == now - c.startTime
       IN call' = [call EXCEPT ![k] =
                     [c EXCEPT !.pc = "body", !.response = response,
                               !.responseTime = responseTime,
                               !.responseTimes = Append(c.responseTimes, responseTime)]]
    /\ UNCHANGED <<form, scope, cleared, sends, now, testResult, visible, isLoading, headersError, bodyError, build, container, doc, http>>

\* await fetch(...) rejects
fetchRejects(k) ==
    /\ call[k].pc = "fetch"
    /\ IF InnerTryCovers("fetch")
       THEN CatchRequestError(k, FetchErrorMessage)
       ELSE OuterCatch(k, call[k], FetchErrorMessage)
    /\ UNCHANGED <<form, scope, cleared, sends, headersError, bodyError, build, container, doc, http>>

\* await response.json() / response.text() resolves: the result is pushed
bodyResolves(k) ==
    /\ call[k].pc = "body"
    /\ ReadBody(call[k].response).ok
    /\ LET c == call[k]
           c1 == [c EXCEPT !.results =
                             Append(c.results,
                                    ResponseResult(c.response, ReadBody(c.response).data,
                                                   c.responseTime, c.i)),
                           !.response = NoResponse,
                           !.i = c.i + 1]
       IN EndIteration(k, c1)
    /\ UNCHANGED <<form, scope, cleared, sends, headersError, bodyError, build, container, doc, http>>

\* await response.json() rejects
bodyRejects(k) ==
    /\ call[k].pc = "body"
    /\ ~ReadBody(call[k].response).ok
    /\ IF InnerTryCovers("body")
       THEN CatchRequestError(k, ReadBody(call[k].response).message)
       ELSE OuterCatch(k, call[k], ReadBody(call[k].response).message)
    /\ UNCHANGED <<form, scope, cleared, sends, headersError, bodyError, build, container, doc, http>>

\* renderDocumentation, run by the search field and the type filter: the
\* route list is rendered anew.  A route that matches the filter gets new
\* elements (result container hidden, fields and error texts as rendered);
\* a route that does not match has no elements in the document.
renderDocumentation(matches) ==
    /\ form = "legacy"
    /\ scope = "render"
    /\ container' = matches
    /\ IF matches
       THEN /\ testResult' = NoOutcome
            /\ visible' = FALSE
            /\ headersError' = ""
            /\ bodyError' = ""
       ELSE UNCHANGED <<testResult, visible, headersError, bodyError>>
    /\ UNCHANGED <<form, scope, cleared, sends, now, call, isLoading, build, doc, http>>

\* time passes
Tick ==
    /\ now < TimeLimit
    /\ now' = now + 1
    /\ UNCHANGED <<form, scope, cleared, sends, call, testResult, visible, isLoading, headersError, bodyError, build, container, doc, http>>

----------------------------------------------------------------------------

Init ==
    /\ form \in {"vue", "legacy"}
    /\ scope \in Scopes
    /\ cleared = FALSE
    /\ sends = 0
    /\ now = 0
    /\ call = [k \in Calls |-> IdleCall]
    /\ testResult = NoOutcome
    /\ visible = FALSE
    /\ isLoading = FALSE
    /\ headersError = ""
    /\ bodyError = ""
    /\ build = IdleBuild
    /\ container = TRUE
    /\ doc = IdleDoc
    /\ http = IdleHttp

Next ==
    \/ \E m \in MethodInputs, h \in HeaderInputs, n \in CountInputs :
       \E b \in BodyInputs(m) :
          sendRequest(m, h, b, n)
    \/ clearResult
    \/ \E k \in Calls, n \in CountInputs : editRequestCount(k, n)
    \/ \E m \in MethodInputs, h \in HeaderInputs, n \in CountInputs :
       \E b \in BodyInputs(m) :
          sendTestRequest(toUpperCase(m), h, b, n)
    \/ clearTestResult
    \/ \E k \in Calls, r \in Responses : fetchResolves(k, r)
    \/ \E k \in Calls : fetchRejects(k)
    \/ \E k \in Calls : bodyResolves(k)
    \/ \E k \in Calls : bodyRejects(k)
    \/ \E matches \in BOOLEAN : renderDocumentation(matches)
    \/ Tick

Spec == Init /\ [][Next]_vars

----------------------------------------------------------------------------
(* Building the request URL.  A string is the sequence of its characters. *)

\* String.prototype.indexOf, positions counted from 1; 0 if there is none
IndexOf(s, pattern) ==
    LET hits == {i \in 1..(Len(s) - Len(pattern) + 1) :
                    SubSeq(s, i, i + Len(pattern) - 1) = pattern}
    IN IF hits = {} THEN 0 ELSE CHOOSE i \in hits : \A j \in hits : i <= j

\* GetSubstitution of String.prototype.replace for a string pattern: in the
\* replacement text $$ stands for $, $& for the match, $` and $' for the
\* text before and after the match
RECURSIVE GetSubstitution(_, _, _, _)
GetSubstitution(replacement, matched, before, after) ==
    IF replacement = <<>> THEN <<>>
    ELSE IF Len(replacement) >= 2 /\ replacement[1] = "$"
            /\ replacement[2] \in {"$", "&", "`", "'"}
    THEN (CASE replacement[2] = "$" -> <<"$">>
            [] replacement[2] = "&" -> matched
            [] replacement[2] = "`" -> before
            [] replacement[2] = "'" -> after)
         \o GetSubstitution(SubSeq(replacement, 3, Len(replacement)),
                            matched, before, after)
    ELSE <<replacement[1]>>
         \o GetSubstitution(Tail(replacement), matched, before, after)

\* String.prototype.replace(pattern, replacement) for a string pattern: the
\* first occurrence only
Replace(s, pattern, replacement) ==
    LET i == IndexOf(s, pattern) IN
    IF i = 0 THEN s
    ELSE LET before == SubSeq(s, 1, i - 1)
             after == SubSeq(s, i + Len(pattern), Len(s))
         IN before \o GetSubstitution(replacement, pattern, before, after) \o after

\* String.prototype.trim for texts with blanks
RECURSIVE Trim(_)
Trim(s) ==
    IF s = <<>> THEN s
    ELSE IF Head(s) = " " THEN Trim(Tail(s))
    ELSE IF s[Len(s)] = " " THEN Trim(SubSeq(s, 1, Len(s) - 1))
    ELSE s

\* the length of the longest prefix of s without a "/"
RECURSIVE SegmentLength(_)
SegmentLength(s) ==
    IF s = <<>> \/ Head(s) = "/" THEN 0 ELSE 1 + SegmentLength(Tail(s))

\* url.match(/:([^/]+)/g): the matches, in order; each is a ":" and the
\* longest run of characters other than "/" after it, and the search goes on
\* behind the match
RECURSIVE Matches(_)
Matches(url) ==
    IF url = <<>> THEN <<>>
    ELSE IF Head(url) = ":" /\ SegmentLength(Tail(url)) > 0
    THEN LET n == SegmentLength(Tail(url)) IN
         <<SubSeq(url, 1, n + 1)>> \o Matches(SubSeq(url, n + 2, Len(url)))
    ELSE Matches(Tail(url))

\* a name is listed once
extractParameters_unique(url) ==
    LET matches == Matches(url)
        first == {j \in 1..Len(matches) : \A i \in 1..(j - 1) : matches[i] # matches[j]}
        kept == CHOOSE f \in [1..Cardinality(first) -> first] :
                    \A a, b \in 1..Cardinality(first) : a < b => f[a] < f[b]
    IN [j \in 1..Cardinality(first) |->
          [name |-> Tail(matches[kept[j]]), type |-> "path", required |-> TRUE]]

\* extractParameters: one parameter for each match, named match.substring(1)
extractParameters(url) ==
    LET matches == Matches(url) IN
    [j \in 1..Len(matches) |->
       [name |-> Tail(matches[j]), type |-> "path", required |-> TRUE]]

\* the names of the parameter fields of the form, in the order of the fields
ParamNames(url) ==
    LET params == extractParameters(url) IN [j \in 1..Len(params) |-> params[j].name]

\* TestForm.vue buildUrl: Object.entries(paramValues).forEach(...)
RECURSIVE buildUrl(_, _)
buildUrl(url, entries) ==
    IF entries = <<>> THEN url
    ELSE LET key == Head(entries).key
             value == Head(entries).value
         IN buildUrl(IF value # <<>> THEN Replace(url, <<":">> \o key, value) ELSE url,
                     Tail(entries))

\* sendTestRequest: the loop over the param- entries of the form data
RECURSIVE buildTestUrl(_, _)
buildTestUrl(finalUrl, entries) ==
    IF entries = <<>> THEN finalUrl
    ELSE LET paramName == Head(entries).key
             value == Head(entries).value
         IN buildTestUrl(IF Trim(value) # <<>>
                         THEN Replace(finalUrl, <<":">> \o paramName, value)
                         ELSE finalUrl,
                         Tail(entries))

\* route URLs: no parameter, one, one with a ":" in its name, the same one
\* twice, and two of which one name begins the other
UrlTemplates ==
    { <<"/", "p">>,
      <<"/", "u", "/", ":", "i", "d">>,
      <<"/", ":", "i", ":", "d", "/">>,
      <<"/", ":", "i", "d", "/", ":", "i", "d">>,
      <<"/", ":", "i", "d", "/", ":", "i", "d", "x">>,
      <<"/", ":", "i", "d", "x", "/", ":", "i", "d">> }

\* what the user may have typed into a parameter field
ParamTexts == { <<>>, <<"7">>, <<" ">>, <<"$", "&">> }

Range(seq) == {seq[j] : j \in 1..Len(seq)}

\* TestForm.vue: paramValues has a key for every field typed into, in the
\* order of the first typing.  Legacy: the form data has an entry for every
\* parameter field, in the order of the fields.
ParamEntries(url) ==
    LET names == ParamNames(url)
        Entry == [key : Range(names), value : ParamTexts]
    IN IF form = "vue"
       THEN {e \in UNION {[1..n -> Entry] : n \in 0..Len(names)} :
                \A i, j \in 1..Len(e) : i # j => e[i].key # e[j].key}
       ELSE {e \in [1..Len(names) -> Entry] :
                \A j \in 1..Len(names) : e[j].key = names[j]}

engineVars == <<scope, cleared, sends, now, call, testResult, visible, isLoading,
                headersError, bodyError, container>>

\* the form of the route is rendered: a field for each parameter of its URL
rendersParameters ==
    /\ build.pc = "idle"
    /\ build' = [build EXCEPT !.pc = "form",
                              !.parameters = extractParameters(build.url)]
    /\ UNCHANGED <<form, engineVars, doc, http>>

\* the user fills the parameter fields
fillsParameters(entries) ==
    /\ build.pc = "form"
    /\ build' = [build EXCEPT !.pc = "filled", !.paramValues = entries]
    /\ UNCHANGED <<form, engineVars, doc, http>>

\* const finalUrl = buildUrl()
buildsUrl ==
    /\ form = "vue"
    /\ build.pc = "filled"
    /\ build' = [build EXCEPT !.pc = "returned",
                              !.finalUrl = buildUrl(build.url, build.paramValues)]
    /\ UNCHANGED <<form, engineVars, doc, http>>

\* the URL a legacy submit builds
buildsTestUrl ==
    /\ form = "legacy"
    /\ build.pc = "filled"
    /\ build' = [build EXCEPT !.pc = "returned",
                              !.finalUrl = buildTestUrl(build.url, build.paramValues)]
    /\ UNCHANGED <<form, engineVars, doc, http>>

InitUrl ==
    /\ form \in {"vue", "legacy"}
    /\ scope = "form"
    /\ cleared = FALSE
    /\ sends = 0
    /\ now = 0
    /\ call = [k \in Calls |-> IdleCall]
    /\ testResult = NoOutcome
    /\ visible = FALSE
    /\ isLoading = FALSE
    /\ headersError = ""
    /\ bodyError = ""
    /\ container = TRUE
    /\ doc = IdleDoc
    /\ http = IdleHttp
    /\ \E url \in UrlTemplates : build = [IdleBuild EXCEPT !.url = url]

NextUrl ==
    \/ rendersParameters
    \/ \E entries \in ParamEntries(build.url) : fillsParameters(entries)
    \/ buildsUrl
    \/ buildsTestUrl

SpecUrl == InitUrl /\ [][NextUrl]_vars

----------------------------------------------------------------------------
(* The api-doc store (stores/api-doc.ts): the flat route lists and the     *)
(* selection of a route.                                                   *)

\* routes of one type in a response of /api/doc/routes, loads of the routes
MaxRoutes == 2
MaxFetches == 2

\* the highest id getNextId can have given out
MaxId == 2 * MaxRoutes * MaxFetches

\* groupRouteHandler for n routes: each gets the next id and isSelected false
NewRoutes(firstId, n) == [j \in 1..n |-> [id |-> firstId + j - 1, isSelected |-> FALSE]]

\* the flat list of the current route type
CurrentFlatRoutes(d) ==
    IF d.currentRouteType = "http" THEN d.flatHttpRoute ELSE d.flatWsRoute

\* the store with its current flat list replaced
WithCurrentFlatRoutes(d, routes) ==
    IF d.currentRouteType = "http" THEN [d EXCEPT !.flatHttpRoute = routes]
    ELSE [d EXCEPT !.flatWsRoute = routes]

\* clearSelectedRoutes, called with the flat list of the current route type
clearSelectedRoutes(d) ==
    WithCurrentFlatRoutes(d, [j \in 1..Len(CurrentFlatRoutes(d)) |->
                                [CurrentFlatRoutes(d)[j] EXCEPT !.isSelected = FALSE]])

\* findRouteById: the index of the first route of the current list with the
\* id, 0 for null
findRouteById(d, routeId) ==
    LET routes == CurrentFlatRoutes(d)
        found == {j \in 1..Len(routes) : routes[j].id = routeId}
    IN IF found = {} THEN 0 ELSE CHOOSE j \in found : \A i \in found : j <= i

\* fetchRoutes up to its await
fetchRoutes ==
    /\ doc.pc = "idle"
    /\ doc.fetches < MaxFetches
    /\ doc' = [doc EXCEPT !.pc = "fetch", !.fetches = doc.fetches + 1,
                          !.isLoading = TRUE, !.error = ""]
    /\ UNCHANGED <<form, engineVars, build, http>>

\* the response is ok and its JSON has nHttp HTTP routes and nWs WS routes:
\* the groups and the flat lists are built anew
routesLoaded(nHttp, nWs) ==
    /\ doc.pc = "fetch"
    /\ doc' = [doc EXCEPT !.pc = "idle", !.isLoading = FALSE,
                          !.flatHttpRoute = NewRoutes(doc.currentId + 1, nHttp),
                          !.flatWsRoute = NewRoutes(doc.currentId + nHttp + 1, nWs),
                          !.currentId = doc.currentId + nHttp + nWs]
    /\ UNCHANGED <<form, engineVars, build, http>>

\* fetch rejects, the response is not ok or its body is not JSON
routesFailed(message) ==
    /\ doc.pc = "fetch"
    /\ doc' = [doc EXCEPT !.pc = "idle", !.isLoading = FALSE, !.error = message]
    /\ UNCHANGED <<form, engineVars, build, http>>

setRouteType(type) ==
    /\ doc' = [doc EXCEPT !.currentRouteType = type]
    /\ UNCHANGED <<form, engineVars, build, http>>

setSelectedRoute(routeId) ==
    /\ IF routeId <= 0 THEN doc' = doc
       ELSE LET d == [clearSelectedRoutes(doc) EXCEPT !.selectedRouteId = routeId]
                route == findRouteById(d, routeId)
            IN doc' = IF route # 0
                      THEN WithCurrentFlatRoutes(d, [CurrentFlatRoutes(d) EXCEPT
                                                        ![route].isSelected = TRUE])
                      ELSE d
    /\ UNCHANGED <<form, engineVars, build, http>>

clearSelectedRoute ==
    /\ doc' = [doc EXCEPT !.selectedRouteId = 0]
    /\ UNCHANGED <<form, engineVars, build, http>>

InitDoc ==
    /\ form = "vue"
    /\ scope = "form"
    /\ cleared = FALSE
    /\ sends = 0
    /\ now = 0
    /\ call = [k \in Calls |-> IdleCall]
    /\ testResult = NoOutcome
    /\ visible = FALSE
    /\ isLoading = FALSE
    /\ headersError = ""
    /\ bodyError = ""
    /\ container = TRUE
    /\ build = IdleBuild
    /\ doc = IdleDoc
    /\ http = IdleHttp

NextDoc ==
    \/ fetchRoutes
    \/ \E nHttp, nWs \in 0..MaxRoutes : routesLoaded(nHttp, nWs)
    \/ \E message \in {"Failed to fetch", "HTTP error! status: 500"} : routesFailed(message)
    \/ \E type \in {"http", "ws"} : setRouteType(type)
    \/ \E routeId \in 0..(MaxId + 1) : setSelectedRoute(routeId)
    \/ clearSelectedRoute

SpecDoc == InitDoc /\ [][NextDoc]_vars

----------------------------------------------------------------------------
(* api.http (utils/base-api.ts): one call, with fetch and the body read as *)
(* the environment.                                                        *)

HttpMethods == {"GET", "post", "DELETE"}

\* String.prototype.toLowerCase on the methods above
toLowerCase(method) ==
    CASE method = "GET" -> "get"
      [] method = "DELETE" -> "delete"
      [] OTHER -> method

\* baseHeaders
BaseHeaders == ("Content-Type" :> "application/json")

\* settings.baseUrl, and the routes a caller may pass: absolute, with and
\* without a leading "/"
BaseUrl == "http://127.0.0.1:8088"
HttpRoutes == {"http://host/api/ping", "/api/ping", "api/ping"}

\* the URL fetch is called with
HttpUrl(route) ==
    CASE route = "http://host/api/ping" -> route
      [] route = "/api/ping" -> BaseUrl \o "/" \o "api/ping"
      [] OTHER -> BaseUrl \o "/" \o route

\* settings.globalHeaders and the customHeaders argument
GlobalHeaders == {<<>>, ("Authorization" :> "Bearer t")}
CustomHeaders == {<<>>, ("Content-Type" :> "text/plain")}

\* what the server may answer: ok, no content, unauthorized, validation
\* error and server error, each with a body that is an object with or
\* without a message, null, empty or not JSON
HttpStatuses ==
    { [status |-> 200, statusText |-> "OK"],
      [status |-> 401, statusText |-> "Unauthorized"],
      [status |-> 422, statusText |-> "Unprocessable Entity"],
      [status |-> 500, statusText |-> "Internal Server Error"] }
HttpBodies == {"{\"ok\":true}", "{\"message\":\"invalid\"}", "null", "", "<html>"}
HttpResponses ==
    { [status |-> st.status, statusText |-> st.statusText,
       contentType |-> "application/json", body |-> b] : st \in HttpStatuses, b \in HttpBodies }

\* what fetch may reject with: a TypeError of a failed connection, or
\* another Error (an abort)
FetchErrors ==
    { [isTypeError |-> TRUE, message |-> "Failed to fetch"],
      [isTypeError |-> FALSE, message |-> "The operation was aborted."] }

NoError == [isNull |-> TRUE, code |-> 0, message |-> ""]
ApiError(code, message) == [isNull |-> FALSE, code |-> code, message |-> message]

\* an ApiResponse built from a response; without one (the catch block) the
\* status fields are absent: a status of 0
ApiResponse(data, error, response) ==
    [data |-> data, error |-> error,
     status |-> response.status, statusText |-> response.statusText]

\* the first line of the message for a failed connection
ConnectMessage == "Failed to connect to server at " \o BaseUrl \o ". Please check:"

\* the call resolves to the result
Resolves(result) ==
    http' = [http EXCEPT !.pc = "resolved", !.result = result]

\* the catch block lets the error through: the promise rejects
HttpCatch_rethrows(error) ==
    http' = [http EXCEPT !.pc = "rejected"]

\* the catch block of api.http
HttpCatch(error) ==
    Resolves(ApiResponse(Null,
                         IF error.isTypeError /\ error.message = "Failed to fetch"
                         THEN ApiError(-1, ConnectMessage)
                         ELSE ApiError(0, error.message),
                         NoResponse))

\* api.http up to await fetch(url, init)
httpCall(method, route, globalHeaders, customHeaders) ==
    /\ http.pc = "idle"
    /\ http' = [http EXCEPT
                  !.pc = "fetch",
                  !.method = method,
                  !.url = HttpUrl(route),
                  !.headers = IF globalHeaders # <<>>
                              THEN Spread(Spread(BaseHeaders, globalHeaders), customHeaders)
                              ELSE Spread(BaseHeaders, customHeaders),
                  !.body = IF toLowerCase(method) # "get" /\ toLowerCase(method) # "delete"
                           THEN Str("{}") ELSE Undefined]
    /\ UNCHANGED <<form, engineVars, build, doc>>

\* await fetch resolves: a response that is not ok is answered at once,
\* unless its status is 422; otherwise the body is read
httpFetchResolves(response) ==
    /\ http.pc = "fetch"
    /\ IF ~ResponseOk(response) /\ response.status = 422
       THEN http' = [http EXCEPT !.pc = "errorData", !.response = response]
       ELSE IF ~ResponseOk(response)
       THEN IF response.status = 401
            THEN http' = [http EXCEPT
                            !.pc = "resolved", !.response = response,
                            !.result = ApiResponse(Null, ApiError(401, "Unauthorized"),
                                                   response)]
            ELSE http' = [http EXCEPT
                            !.pc = "resolved", !.response = response,
                            !.result = ApiResponse(Null,
                                                   ApiError(response.status,
                                                            "HTTP error! status: "
                                                               \o ToString(response.status)),
                                                   response)]
       ELSE http' = [http EXCEPT !.pc = "data", !.response = response]
    /\ UNCHANGED <<form, engineVars, build, doc>>

\* await fetch rejects
httpFetchRejects(error) ==
    /\ http.pc = "fetch"
    /\ HttpCatch(error)
    /\ UNCHANGED <<form, engineVars, build, doc>>

\* await response.json() resolves; of a 422 body the message is read, a
\* TypeError if the body is null
httpJsonResolves ==
    /\ http.pc \in {"errorData", "data"}
    /\ JSONParse(http.response.body).ok
    /\ LET data == JSONParse(http.response.body).value IN
       IF http.pc = "data" THEN Resolves(ApiResponse(data, NoError, http.response))
       ELSE IF data.type = "null"
       THEN HttpCatch([isTypeError |-> TRUE,
                       message |-> "Cannot read properties of null (reading 'message')"])
       ELSE Resolves(ApiResponse(data,
                                 ApiError(422,
                                          IF "message" \in DOMAIN data.value
                                          THEN data.value["message"]
                                          ELSE "Validation Error"),
                                 http.response))
    /\ UNCHANGED <<form, engineVars, build, doc>>

\* await response.json() rejects
httpJsonRejects ==
    /\ http.pc \in {"errorData", "data"}
    /\ ~JSONParse(http.response.body).ok
    /\ HttpCatch([isTypeError |-> FALSE, message |-> JSONParse(http.response.body).message])
    /\ UNCHANGED <<form, engineVars, build, doc>>

InitHttp ==
    /\ form = "vue"
    /\ scope = "form"
    /\ cleared = FALSE
    /\ sends = 0
    /\ now = 0
    /\ call = [k \in Calls |-> IdleCall]
    /\ testResult = NoOutcome
    /\ visible = FALSE
    /\ isLoading = FALSE
    /\ headersError = ""
    /\ bodyError = ""
    /\ container = TRUE
    /\ build = IdleBuild
    /\ doc = IdleDoc
    /\ http = IdleHttp

NextHttp ==
    \/ \E method \in HttpMethods, route \in HttpRoutes :
       \E g \in GlobalHeaders, c \in CustomHeaders :
          httpCall(method, route, g, c)
    \/ \E response \in HttpResponses : httpFetchResolves(response)
    \/ \E error \in FetchErrors : httpFetchRejects(error)
    \/ httpJsonResolves
    \/ httpJsonRejects

SpecHttp == InitHttp /\ [][NextHttp]_vars

----------------------------------------------------------------------------
(* Properties.                                                             *)

InRange(n) == n >= 1 /\ n <= 1000

\* the text is neither blank nor JSON
InvalidJSON(text) == ~IsBlank(text) /\ text \notin DOMAIN ParsedJSON

\* the step is a submit of the form with these field values
SendStep(m, h, b, n) ==
    sendRequest(m, h, b, n) \/ sendTestRequest(toUpperCase(m), h, b, n)

\* the step calls fetch for activation k
FetchIssued(k) ==
    /\ call'[k].pc = "fetch"
    /\ call[k].pc # "fetch" \/ call'[k].issued # call[k].issued

Last(seq) == seq[Len(seq)]

\* the step records a result of activation k
Recorded(k) == Len(call'[k].results) = Len(call[k].results) + 1

IsNetworkError(r) ==
    ~r.success /\ r.status = 0 /\ r.statusText = "Network Error"

\* C1: a send whose request count is outside 1..1000 issues no fetch call
\* and ends in a validation-error outcome
C1_CountOutOfRangeRejected ==
    [][\A m \in RouteMethods, h \in HeaderTexts, n \in CountInputs :
         \A b \in BodyInputs(m) :
            (~InRange(n) /\ SendStep(m, h, b, n)) =>
               /\ \A k \in Calls : ~FetchIssued(k)
               /\ testResult'.kind = "error"]_vars

\* C2: while a batch runs exactly one of its requests is in flight, every
\* earlier request has its result and its time recorded, and the request in
\* flight started no earlier than the recorded requests took together
C2_Sequential ==
    \A k \in Calls :
       Running(k) =>
          /\ call[k].issued = Len(call[k].results) + 1
          /\ call[k].i = Len(call[k].results)
          /\ Len(call[k].responseTimes) >= Len(call[k].results)
          /\ call[k].startTime - call[k].overallStartTime >=
                Sum([j \in 1..Len(call[k].results) |-> call[k].results[j].responseTime])
          /\ call[k].startTime <= now

C2_Witness ==
    \E k \in Calls :
       /\ Running(k)
       /\ call[k].issued = 3
       /\ call[k].results[1].responseTime = 1

\* C3: a rejected fetch is recorded as a Network Error result and the loop
\* goes on; a response that is read is recorded with its own status; a batch
\* that ends has issued all N requests and holds N results, which the
\* outcome carries
C3_TransportFailureDoesNotAbort ==
    [][\A k \in Calls :
         /\ fetchRejects(k) =>
               /\ Recorded(k)
               /\ IsNetworkError(Last(call'[k].results))
               /\ call'[k].exit # "caught"
               /\ call'[k].pc = "fetch" \/ call'[k].exit = "completed"
         /\ bodyResolves(k) =>
               /\ Recorded(k)
               /\ Last(call'[k].results).status = call[k].response.status
               /\ ~Last(call'[k].results).error
         /\ (Running(k) /\ call'[k].pc = "returned") =>
               /\ call'[k].exit = "completed"
               /\ call'[k].issued = call'[k].requestCount
               /\ Len(call'[k].results) = call'[k].requestCount
               /\ call'[k].requestCount > 1 =>
                     /\ testResult'.kind = "batch"
                     /\ testResult'.allResults = call'[k].results
               /\ call'[k].requestCount = 1 =>
                     /\ testResult'.kind = "single"
                     /\ testResult'.status = call'[k].results[1].status]_vars

\* C4: an activation that has called fetch was started with headers text
\* that is blank or JSON and, on a POST/PUT/PATCH route, with body text that
\* is blank or JSON: a send with invalid JSON issues no fetch call
C4_InvalidJSONNeverSent ==
    \A k \in Calls :
       call[k].issued > 0 =>
          /\ ~InvalidJSON(call[k].headersText)
          /\ call[k].method \in {"POST", "PUT", "PATCH"} => ~InvalidJSON(call[k].bodyText)

C4_Witness ==
    /\ \E k \in Calls : call[k].pc = "returned" /\ call[k].exit = "validation"
    /\ headersError # "" \/ bodyError # ""
    /\ \A k \in Calls : call[k].issued = 0

\* the step is a submit that ends in an early return of the handler
FailsValidation ==
    /\ sends' = sends + 1
    /\ call'[FreeCall].pc = "returned"
    /\ call'[FreeCall].exit = "validation"

C6_RequestNumbers ==
    /\ [](\A k \in Calls : \A j \in 1..Len(call[k].results) :
             call[k].results[j].requestNumber = j)
    /\ [](testResult.kind = "batch" =>
             /\ Len(testResult.allResults) = testResult.statistics.totalRequests
             /\ \A j \in 1..Len(testResult.allResults) :
                   testResult.allResults[j].requestNumber = j)
    /\ [][\A k \in Calls :
            Running(k) =>
               /\ Len(call'[k].results) >= Len(call[k].results)
               /\ \A j \in 1..Len(call[k].results) :
                     call'[k].results[j] = call[k].results[j]]_vars

\* C7: every way a request can end appends exactly one result (taking the
\* fetch response appends none yet), and the outer catch is never reached
\* from the execution of a request: a send reaches it only when the display
\* that follows the recorded result raises
C7_IterationNeverRaises ==
    /\ [](\A k \in Calls : call[k].exit # "caught")
    /\ [][\A k \in Calls :
            (Running(k) /\ call'[k].exit = "raised") => Recorded(k) /\ DisplayRaises]_vars
    /\ [](testResult.kind = "error" =>
             testResult.message # "Network error or request failed")
    /\ [][\A k \in Calls :
            /\ (fetchRejects(k) \/ bodyResolves(k) \/ bodyRejects(k)) => Recorded(k)
            /\ (\E r \in Responses : fetchResolves(k, r)) =>
                  call'[k].results = call[k].results /\ call'[k].pc = "body"]_vars

C7_Witness ==
    \E k \in Calls :
       /\ call[k].pc = "returned" /\ call[k].exit = "completed"
       /\ Len(call[k].results) = 2
       /\ call[k].results[1].error
       /\ call[k].results[1].data.value = "Unexpected token in JSON"
       /\ call[k].results[2].error
       /\ call[k].results[2].data.value = FetchErrorMessage

\* C8: whenever fetch has delivered a response, the result recorded for it
\* carries the status of that response, success = false if the status is
\* not ok, and is not a status-0 "Network Error" result
C8_ResponseStatusPreserved ==
    [][\A k \in Calls :
         (call[k].pc = "body" /\ Recorded(k)) =>
            /\ Last(call'[k].results).status = call[k].response.status
            /\ Last(call'[k].results).statusText # "Network Error"
            /\ ~(call[k].response.status \in 200..299) =>
                  ~Last(call'[k].results).success]_vars

C10_StatisticsAddUp ==
    testResult.kind = "batch" =>
       LET st == testResult.statistics IN
       /\ st.successfulRequests + st.failedRequests = st.totalRequests
       /\ st.successfulRequests =
             Cardinality({j \in 1..Len(testResult.allResults) :
                             testResult.allResults[j].success})

\* the responseTime fields of a list of results
ResultTimes(results) == [j \in 1..Len(results) |-> results[j].responseTime]

\* C11: in a batch outcome avgResponseTime is the rounded mean, and
\* minResponseTime and maxResponseTime the minimum and the maximum, of the
\* responseTime fields of allResults
C11_StatisticsOfAllResults ==
    testResult.kind = "batch" =>
       LET st == testResult.statistics
           times == ResultTimes(testResult.allResults) IN
       /\ st.avgResponseTime = RoundedMean(times)
       /\ st.minResponseTime = SeqMin(times)
       /\ st.maxResponseTime = SeqMax(times)

\* the step ends activation k after its loop
Completes(k) == Running(k) /\ call'[k].pc = "returned" /\ call'[k].exit = "completed"

\* C12: a send that ends with exactly one result writes a single outcome
\* with the fields of that result and no statistics; a send that ends with
\* more than one result writes a batch outcome with firstResult = results[0],
\* the statistics, allResults = results and the url, method, request headers
\* and request body of the send
C12_ShapeFollowsResults ==
    [][\A k \in Calls :
         Completes(k) =>
            LET results == call'[k].results IN
            /\ Len(results) = 1 =>
                  /\ testResult'.kind = "single"
                  /\ "statistics" \notin DOMAIN testResult'
                  /\ testResult'.status = results[1].status
                  /\ testResult'.success = results[1].success
                  /\ testResult'.data = results[1].data
                  /\ testResult'.responseTime = results[1].responseTime
            /\ Len(results) > 1 =>
                  /\ testResult'.kind = "batch"
                  /\ testResult'.firstResult = <<results[1]>>
                  /\ testResult'.allResults = results
                  /\ "statistics" \in DOMAIN testResult'
                  /\ testResult'.url = call[k].finalUrl
                  /\ testResult'.method = call[k].method
                  /\ testResult'.requestHeaders = call[k].requestHeaders
                  /\ testResult'.requestBody = call[k].requestBody]_vars

\* the outcome slot of the form shows nothing
SlotEmpty == IF form = "vue" THEN testResult = NoOutcome ELSE ~visible

\* C13: from a clear-result action until the next submit of the form the
\* outcome slot is empty, whatever runs in between
C13_ClearedStaysEmpty == cleared => SlotEmpty

\* C14: no step changes the number of requests a running send is to issue,
\* and a send that ends has issued that many requests and has written a
\* single or a batch outcome
C14_RunsToCompletion ==
    [][\A k \in Calls :
         /\ (Running(k) /\ call'[k].pc # "returned") =>
               call'[k].requestCount = call[k].requestCount
         /\ (Running(k) /\ call'[k].pc = "returned") =>
               /\ call'[k].exit = "completed"
               /\ call'[k].issued = call[k].requestCount
               /\ testResult'.kind \in {"single", "batch"}]_vars

\* the headers object the user wrote into the headers field, if any
CallerHeaders(text) ==
    IF text \in DOMAIN ParsedJSON /\ ParsedJSON[text].type = "object"
    THEN ParsedJSON[text].value ELSE <<>>

\* C15: the headers passed to fetch carry Content-Type: the value of the
\* caller's headers if they have one, application/json otherwise
C15_ContentTypeAlwaysSent ==
    \A k \in Calls :
       call[k].issued > 0 =>
          LET caller == CallerHeaders(call[k].headersText)
              sent == call[k].requestHeaders IN
          /\ "Content-Type" \in DOMAIN sent
          /\ sent["Content-Type"] =
                IF "Content-Type" \in DOMAIN caller THEN caller["Content-Type"]
                ELSE "application/json"

\* the value the body text stands for: null if the text is blank
ParsedBody(text) == IF text \in DOMAIN ParsedJSON THEN ParsedJSON[text] ELSE Null

\* C16: a request carries a body exactly if the method of the route is
\* POST, PUT or PATCH and the parsed body is not null, and the body is then
\* the JSON text of the parsed body; a GET request never carries one
C16_BodyOnlyForBodyMethods ==
    \A k \in Calls :
       call[k].issued > 0 =>
          LET attached == call[k].fetchBody.type # "undefined" IN
          /\ attached <=> /\ call[k].method \in {"POST", "PUT", "PATCH"}
                          /\ ParsedBody(call[k].bodyText).type # "null"
          /\ attached => call[k].fetchBody = Str(call[k].bodyText)
          /\ call[k].method \in {"GET", "DELETE"} => ~attached

C16_Witness ==
    \E k \in Calls :
       /\ call[k].pc = "returned" /\ call[k].exit = "completed"
       /\ call[k].method = "POST"
       /\ call[k].bodyText = "{\"key\":\"value\"}"
       /\ call[k].fetchBody = Str("{\"key\":\"value\"}")

\* s with the first occurrence of pattern replaced by the text itself
ReplaceFirstBy(s, pattern, text) ==
    LET i == IndexOf(s, pattern) IN
    IF i = 0 THEN s
    ELSE SubSeq(s, 1, i - 1) \o text \o SubSeq(s, i + Len(pattern), Len(s))

\* the URL with, for every entry that has a non-empty value, in order, the
\* first remaining :name replaced by the value
RECURSIVE Substituted(_, _)
Substituted(url, entries) ==
    IF entries = <<>> THEN url
    ELSE Substituted(IF Head(entries).value # <<>>
                     THEN ReplaceFirstBy(url, <<":">> \o Head(entries).key,
                                         Head(entries).value)
                     ELSE url,
                     Tail(entries))

\* the parameter has no value: no entry, or entries with the empty text only
Unset(name, entries) ==
    \A j \in 1..Len(entries) : entries[j].key = name => entries[j].value = <<>>

\* every value is empty or has more than blanks (the two forms differ on a
\* value of blanks only)
NoBlankValue(entries) ==
    \A j \in 1..Len(entries) :
       entries[j].value = <<>> \/ Trim(entries[j].value) # <<>>

\* C17: the URL built has, for each parameter with a non-empty value, the
\* first remaining :name replaced by that value, and still contains :name
\* for each parameter of the template without a value
C17_BuildUrlSubstitutes ==
    (build.pc = "returned" /\ NoBlankValue(build.paramValues)) =>
       /\ build.finalUrl = Substituted(build.url, build.paramValues)
       /\ \A name \in Range(ParamNames(build.url)) :
             Unset(name, build.paramValues) =>
                IndexOf(build.finalUrl, <<":">> \o name) # 0

\* C18: a submit with a count in range whose headers text and body text are
\* each blank or JSON calls fetch; with a blank headers text the request
\* carries the default headers and no error is shown on the field, with a
\* blank body text it carries no body
C18_BlankTextIsValid ==
    [][sends' = sends + 1 =>
         \A m \in MethodInputs, n \in {j \in CountInputs : InRange(j)} :
            \A h \in {t \in HeaderInputs : ~InvalidJSON(t)} :
               \A b \in {t \in BodyInputs(m) : isBodyMethod(m) => ~InvalidJSON(t)} :
                  ((IsBlank(h) \/ IsBlank(b)) /\ SendStep(m, h, b, n)) =>
                     LET c == call'[FreeCall] IN
                     /\ FetchIssued(FreeCall)
                     /\ IsBlank(h) =>
                           /\ c.requestHeaders = ("Content-Type" :> "application/json")
                           /\ form = "vue" => headersError' = ""
                     /\ IsBlank(b) => c.fetchBody = Undefined]_vars

C18_Witness ==
    \E k \in Calls :
       /\ call[k].issued > 0
       /\ call[k].method = "POST"
       /\ call[k].headersText = " " /\ call[k].bodyText = " "
       /\ call[k].fetchBody = Undefined

\* C19: in a batch outcome totalTime is not negative and not less than the
\* responseTime of any entry of allResults
C19_TotalTimeCoversRequests ==
    testResult.kind = "batch" =>
       /\ testResult.statistics.totalTime >= 0
       /\ \A j \in 1..Len(testResult.allResults) :
             testResult.statistics.totalTime >= testResult.allResults[j].responseTime

C19_Witness ==
    /\ testResult.kind = "batch"
    /\ Len(testResult.allResults) >= 2
    /\ testResult.allResults[1].responseTime = 1
    /\ testResult.allResults[2].responseTime = 0
    /\ testResult.statistics.totalTime = 1

\* C20: in a batch outcome of at least one request
\* minResponseTime <= avgResponseTime <= maxResponseTime
C20_MinAvgMax ==
    (testResult.kind = "batch" /\ Len(testResult.allResults) >= 1) =>
       LET st == testResult.statistics IN
       /\ st.minResponseTime \in Nat /\ st.avgResponseTime \in Nat
       /\ st.maxResponseTime \in Nat
       /\ st.minResponseTime <= st.avgResponseTime
       /\ st.avgResponseTime <= st.maxResponseTime

C20_Witness ==
    /\ testResult.kind = "batch"
    /\ Len(testResult.allResults) = 3
    /\ testResult.statistics.minResponseTime = 0
    /\ testResult.statistics.avgResponseTime = 1
    /\ testResult.statistics.maxResponseTime = 1

\* C21: an exception that escapes the loop of a send is caught by the outer
\* handler, which writes an error outcome with the generic message and the
\* text of the exception as details; no exception leaves the send action,
\* and in TestForm.vue isLoading is false afterwards
C21_OuterCatchConverts ==
    /\ [](\A k \in Calls : call[k].exit # "raised")
    /\ [][\A k \in Calls :
            (Running(k) /\ call'[k].pc = "returned" /\ call'[k].exit # "completed") =>
               /\ call'[k].exit = "caught"
               /\ testResult'.kind = "error"
               /\ testResult'.message = "Network error or request failed"
               /\ testResult'.details = DisplayErrorMessage
               /\ form = "vue" => ~isLoading']_vars

\* C22: a send of count N > 1 has displayed the progress values 1, 2, ...
\* up to the number of results it has recorded, each once and in this order
\* (so value k is displayed in the step that records result k, before
\* request k+1 is issued); a send of count 1 displays no progress value; and
\* a step that displays a progress value records one result and leaves the
\* earlier results and response times as they are
C22_ProgressAfterEachRequest ==
    /\ [](\A k \in Calls :
             /\ call[k].requestCount > 1 =>
                   call[k].signals = [j \in 1..Len(call[k].results) |-> j]
             /\ call[k].requestCount = 1 => call[k].signals = <<>>)
    /\ [][\A k \in Calls :
            (Running(k) /\ call'[k].signals # call[k].signals) =>
               /\ Recorded(k)
               /\ \A j \in 1..Len(call[k].results) :
                     call'[k].results[j] = call[k].results[j]
               /\ Len(call'[k].responseTimes) = Len(call'[k].results)]_vars

\* the positions of the ":" that begin a token of the template: a ":" with a
\* character other than "/" behind it that is not itself within the token of
\* an earlier ":"
TokenStarts(url) ==
    {i \in 1..(Len(url) - 1) :
        /\ url[i] = ":"
        /\ url[i + 1] # "/"
        /\ ~\E j \in 1..(i - 1) :
              url[j] = ":" /\ \A m \in (j + 1)..i : url[m] # "/"}

\* the token that begins behind position i: the characters up to the next
\* "/" or the end of the template
TokenAt(url, i) ==
    LET ends == {e \in i..Len(url) : \A m \in (i + 1)..e : url[m] # "/"}
        last == CHOOSE e \in ends : \A d \in ends : d <= e
    IN SubSeq(url, i + 1, last)

\* C23: the parameters of a rendered form are one entry {name, type "path",
\* required} for each token start of the route template, from left to right,
\* named by the token, equal names included; none for a template without ":"
C23_ExtractParameters ==
    build.pc # "idle" =>
       LET starts == TokenStarts(build.url)
           params == build.parameters
       IN /\ Len(params) = Cardinality(starts)
          /\ \A j \in 1..Len(params) :
                /\ params[j].type = "path"
                /\ params[j].required = TRUE
                /\ \E i \in starts :
                      /\ Cardinality({h \in starts : h < i}) = j - 1
                      /\ params[j].name = TokenAt(build.url, i)
          /\ (\A i \in 1..Len(build.url) : build.url[i] # ":") => params = <<>>

C23_Witness ==
    /\ build.pc = "form"
    /\ Len(build.parameters) = 2
    /\ build.parameters[1].name = build.parameters[2].name

\* C24: between the iterations of a send and after its loop the list of
\* response times has one entry for each recorded result, the response time
\* of that result
C24_OneTimePerResult ==
    \A k \in Calls :
       call[k].pc # "body" =>
          /\ Len(call[k].responseTimes) = Len(call[k].results)
          /\ \A j \in 1..Len(call[k].results) :
                call[k].responseTimes[j] = call[k].results[j].responseTime

\* C25: at most one send of the form is in flight at any time, and a submit
\* made while a send is in flight issues no request and leaves the outcome
\* slot as it is
C25_OneBatchInFlight ==
    /\ [](Cardinality({k \in Calls : Running(k)}) <= 1)
    /\ [][(sends' = sends + 1 /\ \E k \in Calls : Running(k)) =>
             /\ \A k \in Calls : ~FetchIssued(k)
             /\ testResult' = testResult]_vars

\* C26: in TestForm.vue isLoading is true while a request of a send is in
\* flight and false when no send runs: before the first submit, after a
\* submit that fails validation and after a send has returned
C26_LoadingIffInFlight ==
    form = "vue" =>
       /\ (\E k \in Calls : Running(k)) => isLoading
       /\ (\A k \in Calls : ~Running(k)) => ~isLoading

C26_Witness ==
    /\ form = "vue"
    /\ ~isLoading
    /\ call[1].pc = "returned" /\ call[1].exit = "completed"
    /\ Len(call[1].results) = 2
    /\ call[2].pc = "idle"

\* C27: the success flag of a batch outcome is true exactly if at least one
\* request of the batch succeeded, that is if successfulRequests > 0,
\* whether or not the first result succeeded
C27_BatchSuccessIffAnySucceeded ==
    testResult.kind = "batch" =>
       /\ testResult.success = (testResult.statistics.successfulRequests > 0)
       /\ testResult.success =
             (\E j \in 1..Len(testResult.allResults) : testResult.allResults[j].success)

C27_Witness ==
    /\ testResult.kind = "batch"
    /\ testResult.success
    /\ testResult.firstResult # <<>>
    /\ ~testResult.firstResult[1].success

\* the value the user gave for the parameter of the j-th field: the text of
\* that field (legacy form data) or the value kept under its name (paramValues)
SuppliedValue(j, name, entries) ==
    IF form = "legacy" THEN entries[j].value
    ELSE (CHOOSE e \in Range(entries) : e.key = name).value

\* every parameter of the template has a non-empty value without ":" and "/"
AllSupplied(url, entries) ==
    LET names == ParamNames(url) IN
    /\ form = "legacy" => Len(entries) = Len(names)
    /\ \A j \in 1..Len(names) :
          /\ \E e \in Range(entries) : e.key = names[j]
          /\ SuppliedValue(j, names[j], entries) # <<>>
          /\ \A m \in 1..Len(SuppliedValue(j, names[j], entries)) :
                SuppliedValue(j, names[j], entries)[m] \notin {":", "/"}

\* the template with each of its tokens, from the j-th on, replaced by the
\* value of its own parameter
RECURSIVE FillTokens(_, _, _)
FillTokens(url, entries, j) ==
    IF url = <<>> THEN <<>>
    ELSE IF Head(url) = ":" /\ SegmentLength(Tail(url)) > 0
    THEN LET n == SegmentLength(Tail(url)) IN
         SuppliedValue(j, SubSeq(url, 2, n + 1), entries)
         \o FillTokens(SubSeq(url, n + 2, Len(url)), entries, j + 1)
    ELSE <<Head(url)>> \o FillTokens(Tail(url), entries, j)

\* C28: if every parameter of the route template has a non-empty value
\* without ":" and "/", the URL built has no ":" left and is the template
\* with each token replaced by the value of its own parameter
C28_EveryPlaceholderFilled ==
    (build.pc = "returned" /\ AllSupplied(build.url, build.paramValues)) =>
       /\ \A m \in 1..Len(build.finalUrl) : build.finalUrl[m] # ":"
       /\ build.finalUrl = FillTokens(build.url, build.paramValues, 1)

\* the routes of the two flat lists that are flagged as selected
FlaggedRoutes ==
    {r \in Range(doc.flatHttpRoute) \cup Range(doc.flatWsRoute) : r.isSelected}

\* C29: in the api-doc store a route is flagged isSelected only if its id is
\* selectedRouteId: at most one route of the two flat lists is flagged, and
\* none when selectedRouteId is null
C29_FlagFollowsSelectedRouteId ==
    /\ \A r \in FlaggedRoutes : r.id = doc.selectedRouteId
    /\ Cardinality(FlaggedRoutes) <= 1
    /\ doc.selectedRouteId = 0 => FlaggedRoutes = {}

\* the response was ok and its body was parsed
OkAndParsed == ResponseOk(http.response) /\ JSONParse(http.response.body).ok

\* C30: api.http never rejects; when it has resolved, error is null exactly
\* if the response was ok and its body was parsed, and data is non-null only
\* if error is null
C30_HttpNeverRejects ==
    /\ http.pc # "rejected"
    /\ http.pc = "resolved" =>
          /\ http.result.error.isNull <=> OkAndParsed
          /\ http.result.data.type # "null" => http.result.error.isNull

\* C30 as amended: api.http never rejects; when it has resolved, error is
\* null exactly if the response was ok and its body was parsed, and data is
\* non-null only if error is null or the status of the response is 422: then
\* data is the parsed body of the response and error has the code 422
C30_HttpResolvesToApiResponse ==
    /\ http.pc # "rejected"
    /\ http.pc = "resolved" =>
          /\ http.result.error.isNull <=> OkAndParsed
          /\ http.result.data.type # "null" =>
                \/ http.result.error.isNull
                \/ /\ http.response.status = 422
                   /\ http.result.error.code = 422
                   /\ http.result.data = JSONParse(http.response.body).value

C30_Witness ==
    /\ http.pc = "resolved"
    /\ http.response.status = 422
    /\ http.result.data.type = "object"
    /\ ~http.result.error.isNull
    /\ http.result.error.message = "invalid"

====
